---------------------------- MODULE Spec2Model ----------------------------
(***************************************************************************)
(* Model of hooks/scripts/notify.py: one run of the notification script,   *)
(* from module load to process exit.                                       *)
(*                                                                         *)
(* Representation of Python values.  A JSON / Python value is a record     *)
(* [t |-> type tag, s |-> sequence]; t is one of "absent" (key not in the  *)
(* mapping), "null", "bool", "num", "str", "list", "dict".                 *)
(* A text is a sequence of non-empty pieces, so a text is empty exactly    *)
(* when its sequence is empty.  Texts that the script slices or measures   *)
(* (command, description, error, message, file paths, exception texts)     *)
(* are sequences of one-character pieces; the script's own literals are    *)
(* written as one piece each.                                              *)
(***************************************************************************)
EXTENDS Integers, Sequences, FiniteSets, TLC

\* ------------------------------------------------------------------ bounds
\* Longest Bash command drawn as input (the script's limit is 50).
MaxCmdLen == 52
\* Largest number of command-line arguments after the script name.
MaxArgs == 3

\* ------------------------------------------------------- program constants
BashLimit == 50
TaskLimit == 60
ErrorLimit == 80
MessageLimit == 100

\* ------------------------------------------------------------ Python values
V(t, s) == [t |-> t, s |-> s]
Absent == V("absent", <<>>)
None == V("null", <<>>)
Str(s) == V("str", s)
Lit(x) == V("str", <<x>>)
EmptyStr == V("str", <<>>)

\* bool(v): Python truthiness of a value.
Truthy(v) ==
    CASE v.t = "absent" -> FALSE
      [] v.t = "null" -> FALSE
      [] v.t = "bool" -> v.s = <<"True">>
      [] v.t = "num" -> v.s # <<"0">>
      [] OTHER -> Len(v.s) > 0

\* str(v) as an f-string renders it: a text; non-empty for every non-string.
Format(v) ==
    CASE v.t = "str" -> v.s
      [] v.t = "null" -> <<"None">>
      [] v.t = "list" -> <<"[">> \o v.s \o <<"]">>
      [] v.t = "dict" -> <<"{">> \o v.s \o <<"}">>
      [] OTHER -> v.s

\* mapping.get(key, default) for a key whose stored value is v.
Get(v, default) == IF v.t = "absent" THEN default ELSE v

\* s[:n]
Take(s, n) == SubSeq(s, 1, IF Len(s) < n THEN Len(s) ELSE n)

\* v == "literal"
Is(v, x) == v.t = "str" /\ v.s = <<x>>


\* ------------------------------------------------------------- pathlib name
\* The components of a path text: split at "/", empty components dropped.
RECURSIVE SplitPath(_, _, _)
SplitPath(s, i, cur) ==
    IF i > Len(s)
    THEN (IF cur = <<>> THEN <<>> ELSE <<cur>>)
    ELSE IF s[i] = "/"
         THEN (IF cur = <<>> THEN <<>> ELSE <<cur>>) \o SplitPath(s, i + 1, <<>>)
         ELSE SplitPath(s, i + 1, Append(cur, s[i]))

\* Path(p).name: the final component, "." components not counted; empty
\* when the path has no component.
PathName(s) ==
    LET IsName(c) == c # <<".">>
        parts == SelectSeq(SplitPath(s, 1, <<>>), IsName)
    IN IF parts = <<>> THEN <<>> ELSE parts[Len(parts)]

\* ---------------------------------------------------------- Event Classifier
\* A returned (notification_type, title, message) tuple, or a raised exception.
Ret(ntype, title, message) ==
    [raised |-> FALSE, ntype |-> ntype, title |-> Str(title), message |-> message]
Raise == [raised |-> TRUE, ntype |-> None, title |-> None, message |-> None]

EmptyToolInput ==
    [t |-> "dict", s |-> <<>>, file_path |-> Absent, command |-> Absent,
     description |-> Absent]
EmptyToolResponse == [t |-> "dict", s |-> <<>>, success |-> Absent]

\* x.get(...) works on a dict only; on any other value it raises AttributeError.
HasGet(x) == x.t = "dict"
\* len(x) is defined for strings, lists and dicts.
HasLen(x) == x.t \in {"str", "list", "dict"}
\* x[:n] is defined for strings and lists.
Sliceable(x) == x.t \in {"str", "list"}

\* Mutant of ShortCmd: the ellipsis is added from the limit itself on.
ShortCmdAtLimit(cmd) ==
    IF ~(cmd.t \in {"str", "list", "dict"})
    THEN [raised |-> TRUE, ntype |-> None, title |-> None, message |-> None]
    ELSE IF Len(cmd.s) >= BashLimit /\ cmd.t = "str"
         THEN Ret(Lit("info"), <<"Running Command">>,
                  Str(Take(cmd.s, BashLimit) \o <<".", ".", ".">>))
         ELSE Ret(Lit("info"), <<"Running Command">>, cmd)

\* short_cmd = cmd[:50] + "..." if len(cmd) > 50 else cmd
ShortCmd(cmd) ==
    IF ~HasLen(cmd) THEN Raise
    ELSE IF Len(cmd.s) > BashLimit
         THEN (IF cmd.t = "str"
               THEN Ret(Lit("info"), <<"Running Command">>,
                        Str(Take(cmd.s, BashLimit) \o <<".", ".", ".">>))
               ELSE Raise)
         ELSE Ret(Lit("info"), <<"Running Command">>, cmd)

\* filename = Path(file_path).name if file_path else <fallback>
FileName(file_path, fallback) ==
    IF ~Truthy(file_path) THEN [raised |-> FALSE, name |-> <<fallback>>]
    ELSE IF file_path.t # "str" THEN [raised |-> TRUE, name |-> <<>>]
    ELSE [raised |-> FALSE, name |-> PathName(file_path.s)]

PreToolUse(tool_name, tool_input) ==
    IF Is(tool_name, "Write") \/ Is(tool_name, "Edit")
    THEN IF ~HasGet(tool_input) THEN Raise
         ELSE LET f == FileName(Get(tool_input.file_path, Lit("unknown")), "unknown")
              IN IF f.raised THEN Raise
                 ELSE Ret(Lit("info"), <<"Writing: ">> \o f.name,
                          Str(<<"Modifying ">> \o f.name))
    ELSE IF Is(tool_name, "Bash")
    THEN IF ~HasGet(tool_input) THEN Raise
         ELSE ShortCmd(Get(tool_input.command, EmptyStr))
    ELSE IF Is(tool_name, "Task")
    THEN IF ~HasGet(tool_input) THEN Raise
         ELSE LET desc == Get(tool_input.description, Lit("subtask"))
              IN IF ~Sliceable(desc) THEN Raise
                 ELSE Ret(Lit("info"), <<"Spawning Task">>,
                          V(desc.t, Take(desc.s, TaskLimit)))
    ELSE Ret(Lit("info"), <<"Tool: ">> \o Format(tool_name),
             Str(<<"Using ">> \o Format(tool_name)))

PostToolUse(tool_name, tool_input, tool_response) ==
    IF Is(tool_name, "Write") \/ Is(tool_name, "Edit")
    THEN IF ~HasGet(tool_input) THEN Raise
         ELSE LET f == FileName(Get(tool_input.file_path, EmptyStr), "file")
              IN IF f.raised \/ ~HasGet(tool_response) THEN Raise
                 ELSE LET success == Get(tool_response.success, V("bool", <<"True">>))
                          status == IF Truthy(success) THEN "saved" ELSE "failed"
                      IN Ret(Lit("info"), <<"File ", status>>, Str(f.name))
    ELSE IF Is(tool_name, "Task")
    THEN Ret(Lit("info"), <<"Subtask Done">>, Lit("A subtask has completed"))
    ELSE Ret(Lit("info"), Format(tool_name) \o <<" Done">>,
             Str(Format(tool_name) \o <<" completed">>))

PostToolUseFailure(tool_name, error) ==
    IF ~Truthy(error)
    THEN Ret(Lit("error"), Format(tool_name) \o <<" Failed">>, Lit("Unknown error"))
    ELSE IF ~Sliceable(error) THEN Raise
    ELSE Ret(Lit("error"), Format(tool_name) \o <<" Failed">>,
             V(error.t, Take(error.s, ErrorLimit)))

Notification(data) ==
    LET ntype == Get(data.notification_type, Lit("info"))
        msg == Get(data.message, Lit("Notification"))
    IN IF ~Sliceable(msg) THEN Raise
       ELSE Ret(ntype, <<"Claude Code">>, V(msg.t, Take(msg.s, MessageLimit)))

\* event_name or "Hook triggered"
Fallback(event_name) ==
    Ret(Lit("info"), <<"Claude Code">>,
        IF Truthy(event_name) THEN event_name ELSE Lit("Hook triggered"))

generate_message_from_hook(data) ==
    IF ~HasGet(data) THEN Raise
    ELSE
    LET event_name == Get(data.hook_event_name, EmptyStr)
        tool_name == Get(data.tool_name, EmptyStr)
        tool_input == Get(data.tool_input, EmptyToolInput)
        tool_response == Get(data.tool_response, EmptyToolResponse)
        error == Get(data.error, EmptyStr)
    IN IF Is(event_name, "SessionStart")
       THEN Ret(Lit("info"), <<"Session Started">>,
                Str(<<"Session ">> \o Format(Get(data.source, Lit("startup")))))
       ELSE IF Is(event_name, "Stop")
       THEN Ret(Lit("info"), <<"Task Complete">>, Lit("Claude has finished responding"))
       ELSE IF Is(event_name, "PreToolUse")
       THEN PreToolUse(tool_name, tool_input)
       ELSE IF Is(event_name, "PostToolUse")
       THEN PostToolUse(tool_name, tool_input, tool_response)
       ELSE IF Is(event_name, "PostToolUseFailure")
       THEN PostToolUseFailure(tool_name, error)
       ELSE IF Is(event_name, "Notification")
       THEN Notification(data)
       ELSE IF Is(event_name, "SubagentStart")
       THEN Ret(Lit("info"), <<"Agent Started">>,
                Str(Format(Get(data.agent_type, Lit("Agent"))) \o <<" spawned">>))
       ELSE IF Is(event_name, "SubagentStop")
       THEN Ret(Lit("info"), <<"Agent Stopped">>,
                Str(Format(Get(data.agent_type, Lit("Agent"))) \o <<" finished">>))
       ELSE IF Is(event_name, "SessionEnd")
       THEN Ret(Lit("info"), <<"Session Ended">>,
                Str(<<"Reason: ">> \o Format(Get(data.reason, Lit("ended")))))
       ELSE Fallback(event_name)

\* ---------------------------------------------------------- Platform Notifier
\* pat in text (Python's substring test), on sequences of characters.
Contains(text, pat) ==
    \E i \in 0..(Len(text) - Len(pat)) : SubSeq(text, i + 1, i + Len(pat)) = pat

WPARAM == <<"W", "P", "A", "R", "A", "M">>
LRESULT == <<"L", "R", "E", "S", "U", "L", "T">>
WNDPROC == <<"W", "N", "D", "P", "R", "O", "C">>

\* Mutant of KnownBug: the third substring is forgotten.
KnownBugTwo(error_str) ==
    Contains(error_str, WPARAM) \/ Contains(error_str, LRESULT)

\* "WPARAM" in error_str or "LRESULT" in error_str or "WNDPROC" in error_str
KnownBug(error_str) ==
    Contains(error_str, WPARAM) \/ Contains(error_str, LRESULT)
        \/ Contains(error_str, WNDPROC)

\* The outcome of a call into a notification library: it returns, or raises.
Ok == [kind |-> "ok", text |-> <<>>]
ImportError == [kind |-> "ImportError", text |-> <<"N", "o", " ", "m", "o", "d">>]
Exc(text) == [kind |-> "Exception", text |-> text]

\* get_icon_path(): the .ico file if it exists, else the .png, else None.
get_icon_path(icons) ==
    IF "ico" \in icons THEN "icon/claude-ai-icon.ico"
    ELSE IF "png" \in icons THEN "icon/claude-ai-icon.png"
    ELSE "None"

\* Module load: the import of win10toast and the construction of the notifier.
\* first is the outcome of the first attempt, retry that of the second one.
LoadModule(first, retry) ==
    IF first.kind = "ok"
    THEN [available |-> TRUE, notifier |-> "ToastNotifier", attempts |-> 1, out |-> <<>>]
    ELSE IF first.kind = "ImportError"
    THEN [available |-> FALSE, notifier |-> "None", attempts |-> 1, out |-> <<>>]
    ELSE IF KnownBug(first.text)
    THEN (IF retry.kind = "ok"
          THEN [available |-> TRUE, notifier |-> "ToastNotifier", attempts |-> 2,
                out |-> <<>>]
          ELSE [available |-> FALSE, notifier |-> "None", attempts |-> 2, out |-> <<>>])
    ELSE [available |-> FALSE, notifier |-> "None", attempts |-> 1,
          out |-> <<"[WARNING] win10toast import issue">>]

NoCall == [title |-> "", message |-> None, icon |-> "", duration |-> 0]

\* What a backend did: its return value, its output, and the native call it
\* made (NoCall when it made none).
Did(success, out, call) == [success |-> success, out |-> out, call |-> call]

\* Mutant of Missing: notify_windows does not look at the handle.
MissingIgnored(available, notifier) == FALSE

\* The guard of notify_windows.
Missing(available, notifier) == ~available \/ notifier = "None"

notify_windows(available, notifier, title, message, icon_path, native) ==
    IF Missing(available, notifier)
    THEN Did(FALSE, <<"[ERROR] win10toast not installed">>, NoCall)
    ELSE LET call == [title |-> title, message |-> message, icon |-> icon_path,
                      duration |-> 5]
         IN IF native.kind = "ok" THEN Did(TRUE, <<>>, call)
            ELSE IF KnownBug(native.text)
            THEN Did(TRUE, <<"[WARNING] Ignoring known win10toast bug">>, call)
            ELSE Did(FALSE, <<"[ERROR] Windows notification failed">>, call)

notify_macos(title, message, icon_path, native) ==
    IF native.kind = "ImportError"
    THEN Did(FALSE, <<"[ERROR] pync not installed">>, NoCall)
    ELSE LET call == [title |-> title, message |-> message, icon |-> icon_path,
                      duration |-> 0]
         IN IF native.kind = "ok" THEN Did(TRUE, <<>>, call)
            ELSE Did(FALSE, <<"[ERROR] macOS notification failed">>, call)

notify_linux(title, message, icon_path, native) ==
    IF native.kind = "ImportError"
    THEN Did(FALSE, <<"[ERROR] notify2 not installed">>, NoCall)
    ELSE LET call == [title |-> title, message |-> message,
                      icon |-> IF icon_path # "None" THEN icon_path
                               ELSE "dialog-information",
                      duration |-> 5000]
         IN IF native.kind = "ok" THEN Did(TRUE, <<>>, call)
            ELSE Did(FALSE, <<"[ERROR] Linux notification failed">>, call)

\* Mutant of title_map: an unknown severity gets the title of info.
title_map_info_default(notification_type) ==
    IF Is(notification_type, "stop") THEN "Claude Code - Session Ending"
    ELSE IF Is(notification_type, "permission") THEN "Claude Code - Permission Required"
    ELSE IF Is(notification_type, "error") THEN "Claude Code - Error"
    ELSE IF Is(notification_type, "warning") THEN "Claude Code - Warning"
    ELSE "Claude Code - Information"

\* title_map.get(notification_type, "Claude Code")
title_map(notification_type) ==
    IF Is(notification_type, "stop") THEN "Claude Code - Session Ending"
    ELSE IF Is(notification_type, "permission") THEN "Claude Code - Permission Required"
    ELSE IF Is(notification_type, "error") THEN "Claude Code - Error"
    ELSE IF Is(notification_type, "warning") THEN "Claude Code - Warning"
    ELSE IF Is(notification_type, "info") THEN "Claude Code - Information"
    ELSE "Claude Code"

\* A list or a dict cannot be a dictionary key: title_map.get raises TypeError.
Unhashable(v) == v.t \in {"list", "dict"}

\* Mutant of Backend: the last branch is taken for every other OS.
BackendNoElse(system) ==
    IF system = "Windows" THEN "windows"
    ELSE IF system = "Darwin" THEN "darwin"
    ELSE "linux"

\* The branch show_notification takes for an OS identity.
Backend(system) ==
    IF system = "Windows" THEN "windows"
    ELSE IF system = "Darwin" THEN "darwin"
    ELSE IF system = "Linux" THEN "linux"
    ELSE "unsupported"

\* The tail of show_notification: report the backend's result and return it.
Report(success) ==
    IF success THEN <<"[SUCCESS] Notification displayed">>
    ELSE <<"[FAILED] Notification could not be displayed">>

\* ------------------------------------------------------------------- entry
\* bool(hook_data): a JSON object is true when it has at least one key.
TruthyData(d) ==
    IF d.t = "dict"
    THEN Len(d.s) > 0
         \/ \E f \in {"hook_event_name", "tool_name", "tool_input", "tool_response",
                      "error", "notification_type", "message", "source", "reason",
                      "agent_type"} : d[f].t # "absent"
    ELSE Truthy(V(d.t, d.s))

Data(t, s) ==
    [t |-> t, s |-> s, hook_event_name |-> Absent, tool_name |-> Absent,
     tool_input |-> [t |-> "absent", s |-> <<>>, file_path |-> Absent,
                     command |-> Absent, description |-> Absent],
     tool_response |-> [t |-> "absent", s |-> <<>>, success |-> Absent],
     error |-> Absent, notification_type |-> Absent, message |-> Absent,
     source |-> Absent, reason |-> Absent, agent_type |-> Absent]
NoData == Data("null", <<>>)

\* Mutant of parse_stdin_json: the terminal is read like a pipe.
parse_stdin_any(in) ==
    IF in.raw \in {"raises", "empty", "blank", "malformed"} THEN NoData ELSE in.data

\* parse_stdin_json(): the parsed value, or None.  in.isatty is what
\* sys.stdin.isatty() answers; in.raw is what reading gives: "raises" (the
\* read fails), "empty", "blank" (whitespace only), "malformed" (not JSON), or
\* "json", the text of the JSON value in.data.
parse_stdin_json(in) ==
    IF in.isatty THEN NoData
    ELSE IF in.raw = "raises" THEN NoData
    ELSE IF in.raw \in {"empty", "blank"} THEN NoData
    ELSE IF in.raw = "malformed" THEN NoData
    ELSE in.data

\* Mutant of ExitCode: sys.exit(success), the boolean itself as the status.
ExitCodeOfBool(success) == IF success THEN 1 ELSE 0

\* sys.exit(0 if success else 1)
ExitCode(success) == IF success THEN 0 ELSE 1
\* The interpreter's exit status when an exception reaches the top level.
UncaughtStatus == 1

\* ------------------------------------------------------------------ inputs
\* A text of n characters whose content depends on the position.
Text(n) == [i \in 1..n |-> <<"a", "b", "c", "d", "e", "f", "g">>[((i - 1) % 7) + 1]]

\* One value of every JSON type, false and true ones, and a missing key.
Vals ==
    {Absent, None, V("num", <<"0">>), V("num", <<"7">>), V("bool", <<"False">>),
     V("bool", <<"True">>), V("list", <<>>), V("list", <<"x">>), V("dict", <<>>),
     V("dict", <<"k">>), EmptyStr, Str(<<"a">>)}

PathVals ==
    Vals \cup {Str(p) : p \in {<<"/">>, <<".">>, <<".", ".">>, <<"a", "/", "b">>,
                               <<"a", "/", "b", "/">>, <<"a", "/", ".">>,
                               <<"/", "a", ".", "b">>}}

CmdVals ==
    Vals \cup {Str(Text(n)) : n \in 0..MaxCmdLen}
         \cup {V("list", Text(MaxCmdLen)), V("dict", Text(MaxCmdLen))}

Severities == {"stop", "permission", "error", "warning", "info"}

EventNames ==
    {"SessionStart", "Stop", "PreToolUse", "PostToolUse", "PostToolUseFailure",
     "Notification", "SubagentStart", "SubagentStop", "SessionEnd"}

ToolInput(file_path, command, description) ==
    [t |-> "dict", s |-> <<>>, file_path |-> file_path, command |-> command,
     description |-> description]
\* tool_input / tool_response holding a value that is no JSON object.
NotADict(v, r) == [f \in DOMAIN r |-> IF f = "t" THEN v.t ELSE IF f = "s" THEN v.s ELSE r[f]]
NonDictVals == {v \in Vals : v.t \notin {"absent", "dict"}}

Event(name) == [Data("dict", <<>>) EXCEPT !.hook_event_name = Lit(name)]

ToolInputs(fields) ==
    fields \cup {ToolInput(Absent, Absent, Absent), Data("dict", <<>>).tool_input}
           \cup {NotADict(v, EmptyToolInput) : v \in NonDictVals}

ToolResponses ==
    {[t |-> "dict", s |-> <<>>, success |-> v] :
        v \in {Absent, V("bool", <<"True">>), V("bool", <<"False">>), V("list", <<>>)}}
      \cup {Data("dict", <<>>).tool_response, NotADict(None, EmptyToolResponse)}

\* The Event Records drawn as input.
HookObjects ==
    {Data("dict", <<>>), Data("dict", <<"x">>)}
    \cup {[Data("dict", <<>>) EXCEPT !.hook_event_name = v] :
            v \in Vals \cup {Lit(n) : n \in EventNames \cup {"Other"}}}
    \cup {[Event(n) EXCEPT ![f] = v] :
            n \in {"SessionStart", "SessionEnd", "SubagentStart", "SubagentStop", "Stop"},
            f \in {"source", "reason", "agent_type"}, v \in Vals}
    \cup {[Event("PreToolUse") EXCEPT !.tool_name = Lit(tn), !.tool_input = ti] :
            tn \in {"Write", "Edit"},
            ti \in ToolInputs({ToolInput(p, Absent, Absent) : p \in PathVals})}
    \cup {[Event("PreToolUse") EXCEPT !.tool_name = Lit("Bash"), !.tool_input = ti] :
            ti \in ToolInputs({ToolInput(Absent, c, Absent) : c \in CmdVals})}
    \cup {[Event("PreToolUse") EXCEPT !.tool_name = Lit("Task"), !.tool_input = ti] :
            ti \in ToolInputs({ToolInput(Absent, Absent, d) :
                                 d \in Vals \cup {Str(Text(TaskLimit + 1))}})}
    \cup {[Event(n) EXCEPT !.tool_name = tn] :
            n \in {"PreToolUse", "PostToolUse"},
            tn \in Vals \cup {Lit("Read"), Lit("Task")}}
    \cup {[Event("PostToolUse") EXCEPT !.tool_name = Lit(tn), !.tool_input = ti,
                                       !.tool_response = tr] :
            tn \in {"Write", "Edit"},
            ti \in ToolInputs({ToolInput(p, Absent, Absent) : p \in PathVals}),
            tr \in ToolResponses}
    \cup {[Event("PostToolUseFailure") EXCEPT !.tool_name = tn, !.error = e] :
            tn \in {Absent, Lit("Bash")},
            e \in Vals \cup {Str(Text(ErrorLimit + 1))}}
    \cup {[Event("Notification") EXCEPT !.notification_type = nt, !.message = m] :
            nt \in Vals \cup {Lit(x) : x \in Severities},
            m \in Vals \cup {Str(Text(MessageLimit + 1))}}

Json(d) == [isatty |-> FALSE, raw |-> "json", data |-> d]
NotJson(isatty, raw) == [isatty |-> isatty, raw |-> raw, data |-> NoData]

\* Standard input that is no JSON object: a terminal, unreadable, empty,
\* blank, malformed, or a JSON value of another type.
PlainStdins ==
    {NotJson(FALSE, r) : r \in {"raises", "empty", "blank", "malformed"}}
    \cup {NotJson(TRUE, "empty"), [Json(Event("Stop")) EXCEPT !.isatty = TRUE]}
    \cup {Json(Data(v.t, v.s)) : v \in Vals \ {Absent}}

\* A few Event Records, run on every host.
SomeObjects ==
    {Data("dict", <<"x">>), Event("Stop"), Event("SessionStart"),
     [Event("Notification") EXCEPT !.notification_type = Lit("permission"),
                                   !.message = Str(Text(3))],
     [Event("Notification") EXCEPT !.notification_type = Lit("custom")],
     [Event("Notification") EXCEPT !.notification_type = V("num", <<"7">>)],
     [Event("Notification") EXCEPT !.notification_type = V("list", <<"x">>)],
     [Event("PostToolUseFailure") EXCEPT !.error = Str(Text(3))],
     [Event("PreToolUse") EXCEPT !.tool_name = Lit("Bash"),
                                 !.tool_input = NotADict(None, EmptyToolInput)]}

\* No argument, one, or a type and a message followed by up to MaxArgs - 2
\* further arguments.
Args ==
    {<<>>, <<Lit("stop")>>}
    \cup {<<Lit(t), m>> \o [i \in 1..k |-> Lit("extra")] :
            t \in Severities \cup {"custom"}, m \in {EmptyStr, Str(Text(2))},
            k \in 0..(MaxArgs - 2)}

ErrTexts ==
    {<<>>,
     WPARAM,
     <<"x", " ">> \o LRESULT \o <<" ", "y">>,
     <<"x">> \o WNDPROC,
     <<"W", "P", "A", "R", "A", " ", "M">>,
     <<"w", "p", "a", "r", "a", "m">>,
     <<"d", "e", "n", "i", "e", "d">>}

Natives == {Ok, ImportError} \cup {Exc(t) : t \in ErrTexts}

Systems == {"Windows", "Darwin", "Linux", "FreeBSD"}

\* How the import of win10toast goes: the first attempt, and the retry that
\* follows a first attempt failing with the known bug.
Loads ==
    {<<Ok, Ok>>, <<ImportError, Ok>>, <<Exc(<<"d", "e", "n", "i", "e", "d">>), Ok>>,
     <<Exc(WPARAM), Ok>>, <<Exc(WPARAM), Exc(WPARAM)>>}

Host(system, load, native, icons) ==
    [system |-> system, load_first |-> load[1], load_retry |-> load[2],
     native |-> native, icons |-> icons]

\* The hosts, and the few of them on which every input is run.
Hosts ==
    {Host(sy, l, n, i) : sy \in Systems, l \in Loads, n \in Natives,
                         i \in {{}, {"png"}, {"ico", "png"}}}

SomeHosts ==
    {Host(sy, <<Ok, Ok>>, n, {}) :
        sy \in Systems, n \in {Ok, Exc(<<"d", "e", "n", "i", "e", "d">>)}}

SomeArgs == {<<>>, <<Lit("permission"), Str(Text(2))>>}

\* ------------------------------------------------------------------- state
VARIABLES
    env,        \* the host: OS identity, library behaviour, icon files present
    stdin,      \* what standard input holds
    argv,       \* the command-line arguments after the script name
    pc,         \* where the run is
    win10toast_available,
    toast_notifier,
    mode,       \* "none", "hook" or "legacy"
    hook_data,
    intent,     \* the (ntype, title, message) tuple main holds
    shown,      \* show_notification's locals: title and icon_path
    success,    \* show_notification's return value, once returned is TRUE
    returned,
    exit_status,
    uncaught,   \* an exception reached the top level
    stdout,
    log         \* what was observed: OS reads, backend calls, native calls, ...

vars == <<env, stdin, argv, pc, win10toast_available, toast_notifier, mode, hook_data,
          intent, shown, success, returned, exit_status, uncaught, stdout, log>>

inputs == <<env, stdin, argv>>

NoIntent == [ntype |-> None, title |-> None, message |-> None]
NoShown == [title |-> "", icon |-> ""]
NoLog ==
    [os_reads |-> 0, init_attempts |-> 0, argv_read |-> FALSE,
     calls |-> [b \in {"windows", "darwin", "linux"} |-> 0],
     native_calls |-> 0, native |-> NoCall]

\* An exception propagates out of main: traceback, interpreter exit.
Crash ==
    /\ pc' = "done"
    /\ uncaught' = TRUE
    /\ exit_status' = UncaughtStatus

\* Lines 38-59, run once when the module is loaded.
ModuleLoad ==
    /\ pc = "load"
    /\ LET r == LoadModule(env.load_first, env.load_retry)
       IN /\ win10toast_available' = r.available
          /\ toast_notifier' = r.notifier
          /\ stdout' = stdout \o r.out
          /\ log' = [log EXCEPT !.init_attempts = r.attempts]
    /\ pc' = "main"
    /\ UNCHANGED <<inputs, mode, hook_data, intent, shown, success, returned,
                   exit_status, uncaught>>

\* main, lines 283-285: read standard input and choose the mode.
ParseStdin ==
    /\ pc = "main"
    /\ hook_data' = parse_stdin_json(stdin)
    /\ IF TruthyData(hook_data')
       THEN mode' = "hook" /\ pc' = "hook"
       ELSE mode' = "legacy" /\ pc' = "legacy"
    /\ UNCHANGED <<inputs, win10toast_available, toast_notifier, intent, shown,
                   success, returned, exit_status, uncaught, stdout, log>>

\* main, line 287: classify the event record.
GenerateMessage ==
    /\ pc = "hook"
    /\ LET r == generate_message_from_hook(hook_data)
       IN IF r.raised
          THEN Crash /\ UNCHANGED intent
          ELSE /\ intent' = [ntype |-> r.ntype, title |-> r.title, message |-> r.message]
               /\ pc' = "show"
               /\ UNCHANGED <<exit_status, uncaught>>
    /\ UNCHANGED <<inputs, win10toast_available, toast_notifier, mode, hook_data,
                   shown, success, returned, stdout, log>>

\* main, lines 296-310: the positional arguments.
LegacyArgs ==
    /\ pc = "legacy"
    /\ log' = [log EXCEPT !.argv_read = TRUE]
    /\ IF Len(argv) < 2
       THEN /\ stdout' = Append(stdout, "Usage: python notify.py <notification_type> <message>")
            /\ exit_status' = 1
            /\ pc' = "done"
            /\ UNCHANGED intent
       ELSE /\ intent' = [ntype |-> argv[1], title |-> None, message |-> argv[2]]
            /\ pc' = "show"
            /\ UNCHANGED <<stdout, exit_status>>
    /\ UNCHANGED <<inputs, win10toast_available, toast_notifier, mode, hook_data,
                   shown, success, returned, uncaught>>

\* show_notification, lines 148-178: resolve title and icon, read the OS
\* identity, print the four [INFO] lines and branch.
ShowNotification ==
    /\ pc = "show"
    /\ IF Unhashable(intent.ntype)
       THEN Crash /\ UNCHANGED <<shown, success, returned, stdout, log>>
       ELSE /\ shown' = [title |-> title_map(intent.ntype),
                         icon |-> get_icon_path(env.icons)]
            /\ log' = [log EXCEPT !.os_reads = @ + 1]
            /\ IF Backend(env.system) = "unsupported"
               THEN /\ stdout' = stdout \o <<"[INFO] Platform", "[INFO] Title",
                                            "[INFO] Message", "[INFO] Icon",
                                            "[ERROR] Unsupported platform">>
                    /\ success' = FALSE
                    /\ returned' = TRUE
                    /\ pc' = "exit"
               ELSE /\ stdout' = stdout \o <<"[INFO] Platform", "[INFO] Title",
                                            "[INFO] Message", "[INFO] Icon">>
                    /\ pc' = Backend(env.system)
                    /\ UNCHANGED <<success, returned>>
            /\ UNCHANGED <<exit_status, uncaught>>
    /\ UNCHANGED <<inputs, win10toast_available, toast_notifier, mode, hook_data,
                   intent>>

\* A backend ran with result r; show_notification reports and returns it
\* (lines 180-185).
Return(b, r) ==
    /\ success' = r.success
    /\ returned' = TRUE
    /\ stdout' = stdout \o r.out \o Report(r.success)
    /\ log' = [log EXCEPT !.calls[b] = @ + 1,
                          !.native_calls = IF r.call = NoCall THEN @ ELSE @ + 1,
                          !.native = r.call]
    /\ pc' = "exit"
    /\ UNCHANGED <<inputs, win10toast_available, toast_notifier, mode, hook_data,
                   intent, shown, exit_status, uncaught>>

NotifyWindows ==
    /\ pc = "windows"
    /\ Return("windows",
              notify_windows(win10toast_available, toast_notifier, shown.title,
                             intent.message, shown.icon, env.native))

NotifyMacos ==
    /\ pc = "darwin"
    /\ Return("darwin", notify_macos(shown.title, intent.message, shown.icon, env.native))

NotifyLinux ==
    /\ pc = "linux"
    /\ Return("linux", notify_linux(shown.title, intent.message, shown.icon, env.native))

\* main, lines 289-293 and 313: print the verdict in hook mode, then exit.
Exit ==
    /\ pc = "exit"
    /\ stdout' = IF mode = "hook"
                 THEN Append(stdout, IF success THEN "Notification sent successfully"
                                     ELSE "Notification failed")
                 ELSE stdout
    /\ exit_status' = ExitCode(success)
    /\ pc' = "done"
    /\ UNCHANGED <<inputs, win10toast_available, toast_notifier, mode, hook_data,
                   intent, shown, success, returned, uncaught, log>>

Next ==
    \/ ModuleLoad
    \/ ParseStdin
    \/ GenerateMessage
    \/ LegacyArgs
    \/ ShowNotification
    \/ NotifyWindows
    \/ NotifyMacos
    \/ NotifyLinux
    \/ Exit

Init ==
    /\ \/ \E h \in Hosts, d \in SomeObjects, a \in SomeArgs :
             env = h /\ stdin = Json(d) /\ argv = a
       \/ \E h \in Hosts, a \in SomeArgs :
             env = h /\ stdin = NotJson(FALSE, "malformed") /\ argv = a
       \/ \E h \in SomeHosts, in \in PlainStdins, a \in Args :
             env = h /\ stdin = in /\ argv = a
       \/ \E h \in SomeHosts, d \in HookObjects, a \in SomeArgs :
             env = h /\ stdin = Json(d) /\ argv = a
    /\ pc = "load"
    /\ win10toast_available = FALSE
    /\ toast_notifier = "None"
    /\ mode = "none"
    /\ hook_data = NoData
    /\ intent = NoIntent
    /\ shown = NoShown
    /\ success = FALSE
    /\ returned = FALSE
    /\ exit_status = -1
    /\ uncaught = FALSE
    /\ stdout = <<>>
    /\ log = NoLog

Spec == Init /\ [][Next]_vars

\* ------------------------------------------------------------------ claims
Calls == log.calls["windows"] + log.calls["darwin"] + log.calls["linux"]
Started == pc \notin {"load", "main"}
Classified == pc \notin {"load", "main", "hook"}
NonEmptyText(v) == v.t = "str" /\ Len(v.s) > 0

\* C1: every run ends through an explicit exit with status 0 or 1, and no
\* exception ever propagates out of main uncaught.
C1_NoUncaughtFault ==
    /\ ~uncaught
    /\ pc = "done" => exit_status \in {0, 1}

\* C2: when the process has exited, its status is 0 exactly when
\* show_notification returned true, and 1 in every other case.
C2_ExitStatus ==
    pc = "done" =>
        /\ exit_status \in {0, 1}
        /\ exit_status = 0 <=> (returned /\ success)

C2_Witness ==
    /\ pc = "done" /\ mode = "hook" /\ returned /\ success /\ exit_status = 0

\* C3: the OS identity is read at most once and at most one backend is
\* invoked in a run; a backend is invoked only on its own OS; on any other OS
\* no backend is invoked and show_notification returns false.
C3_OneBackend ==
    /\ log.os_reads <= 1
    /\ Calls <= 1
    /\ returned => log.os_reads = 1
    /\ log.calls["windows"] > 0 => env.system = "Windows"
    /\ log.calls["darwin"] > 0 => env.system = "Darwin"
    /\ log.calls["linux"] > 0 => env.system = "Linux"
    /\ pc \in {"windows", "darwin", "linux"} =>
          env.system = [windows |-> "Windows", darwin |-> "Darwin", linux |-> "Linux"][pc]
    /\ (returned /\ env.system \in {"Windows", "Darwin", "Linux"}) => Calls = 1
    /\ (returned /\ env.system \notin {"Windows", "Darwin", "Linux"}) =>
          Calls = 0 /\ ~success /\ log.native_calls = 0

C3_Witness ==
    /\ pc = "done" /\ env.system = "FreeBSD" /\ returned /\ ~success
    /\ log.os_reads = 1 /\ Calls = 0

\* C4: when show_toast raises, notify_windows returns true exactly when the
\* exception text contains "WPARAM", "LRESULT" or "WNDPROC"; when the native
\* call of notify_macos or notify_linux raises, the result is always false.
C4_AllowList ==
    (returned /\ Calls = 1 /\ env.native.kind # "ok") =>
        /\ (log.calls["windows"] = 1 /\ log.native_calls = 1) =>
              (success <=> \/ Contains(env.native.text, WPARAM)
                           \/ Contains(env.native.text, LRESULT)
                           \/ Contains(env.native.text, WNDPROC))
        /\ log.calls["windows"] = 0 => ~success

C4_Witness ==
    /\ returned /\ log.calls["windows"] = 1 /\ log.native_calls = 1
    /\ env.native.kind = "Exception" /\ Contains(env.native.text, WNDPROC)
    /\ success

\* C5: when standard input is a terminal, empty, blank or not JSON, the run
\* goes to legacy mode and nothing has been reported about the input; with
\* fewer than two arguments it then prints the usage text and exits with
\* status 1, the OS identity never read and no backend invoked.
C5_FallThrough ==
    (Started /\ (stdin.isatty \/ stdin.raw \in {"empty", "blank", "malformed"})) =>
        /\ mode = "legacy"
        /\ ~uncaught
        /\ pc = "legacy" =>
              \A i \in 1..Len(stdout) : stdout[i] = "[WARNING] win10toast import issue"
        /\ (pc \notin {"legacy"} /\ Len(argv) < 2) =>
              /\ pc = "done"
              /\ exit_status = 1
              /\ stdout[Len(stdout)] = "Usage: python notify.py <notification_type> <message>"
              /\ log.os_reads = 0
              /\ Calls = 0
              /\ log.native_calls = 0

C5_Witness ==
    /\ pc = "done" /\ stdin.raw = "malformed" /\ ~stdin.isatty /\ Len(argv) = 1
    /\ exit_status = 1 /\ log.os_reads = 0

\* An Event Record whose fields, where present, have the expected types:
\* texts, the two nested mappings, and a boolean success flag.
WellTyped(d) ==
    /\ d.t = "dict"
    /\ \A f \in {"hook_event_name", "tool_name", "error", "notification_type", "message",
                 "source", "reason", "agent_type"} : d[f].t \in {"str", "absent"}
    /\ d.tool_input.t \in {"dict", "absent"}
    /\ \A f \in {"file_path", "command", "description"} :
          d.tool_input[f].t \in {"str", "absent"}
    /\ d.tool_response.t \in {"dict", "absent"}
    /\ d.tool_response.success.t \in {"bool", "absent"}

\* C6: for every Event Record with present, absent or empty text fields, the
\* title and the message derived from it are both non-empty strings.
C6_NonEmptyIntent ==
    (mode = "hook" /\ Classified /\ WellTyped(hook_data)) =>
        /\ ~uncaught
        /\ NonEmptyText(intent.title)
        /\ NonEmptyText(intent.message)

\* C7: for PreToolUse with tool Bash and a command text, the message is the
\* first 50 characters followed by "..." when the command is longer than 50
\* characters and the command itself otherwise; the severity is info and the
\* title is "Running Command".
C7_BashTruncation ==
    LET d == stdin.data
        cmd == d.tool_input.command.s
    IN (/\ Classified /\ mode = "hook"
        /\ Is(d.hook_event_name, "PreToolUse") /\ Is(d.tool_name, "Bash")
        /\ d.tool_input.t = "dict" /\ d.tool_input.command.t = "str") =>
           /\ ~uncaught
           /\ intent.ntype = Lit("info")
           /\ intent.title = Lit("Running Command")
           /\ intent.message.t = "str"
           /\ Len(cmd) <= 50 => intent.message.s = cmd
           /\ Len(cmd) > 50 =>
                 /\ Len(intent.message.s) = 53
                 /\ \A i \in 1..50 : intent.message.s[i] = cmd[i]
                 /\ \A i \in 51..53 : intent.message.s[i] = "."

C7_Witness ==
    /\ pc = "show" /\ mode = "hook"
    /\ Is(stdin.data.hook_event_name, "PreToolUse") /\ Is(stdin.data.tool_name, "Bash")
    /\ stdin.data.tool_input.command.t = "str"
    /\ Len(stdin.data.tool_input.command.s) = 51
    /\ Len(intent.message.s) = 53

\* C8: when the notifier handle was not initialized at module load,
\* notify_windows returns false with the missing-dependency diagnostic and
\* show_toast is never called; the initialization is attempted at module load
\* only, and nothing after it changes the handle.
C8_NoHandleNoToast ==
    /\ []((pc # "load" /\ (~win10toast_available \/ toast_notifier = "None")) =>
            /\ log.native_calls = 0 \/ log.calls["windows"] = 0
            /\ log.calls["windows"] = 1 =>
                  /\ ~success
                  /\ log.native = NoCall
                  /\ \E i \in 1..Len(stdout) :
                        stdout[i] = "[ERROR] win10toast not installed")
    /\ [][pc # "load" =>
            /\ log.init_attempts' = log.init_attempts
            /\ win10toast_available' = win10toast_available
            /\ toast_notifier' = toast_notifier]_vars

C8_Witness ==
    /\ pc = "done" /\ env.system = "Windows" /\ ~win10toast_available
    /\ log.calls["windows"] = 1 /\ log.native_calls = 0 /\ exit_status = 1
    /\ env.native.kind = "ok"

\* C9: every JSON object on standard input is handled in structured-input
\* mode, and the command-line arguments are never consulted.
C9_ObjectsAreHookMode ==
    (Started /\ ~stdin.isatty /\ stdin.raw = "json" /\ stdin.data.t = "dict") =>
        /\ mode = "hook"
        /\ ~log.argv_read

\* C10: the title handed to the backend depends on the severity alone: the
\* fixed title for stop, permission, error, warning and info, "Claude Code"
\* for any other severity; the classifier's title is not used.
C10_TitleBySeverity ==
    LET sev == intent.ntype
        expected ==
            IF sev.t # "str" THEN "Claude Code"
            ELSE IF sev.s = <<"stop">> THEN "Claude Code - Session Ending"
            ELSE IF sev.s = <<"permission">> THEN "Claude Code - Permission Required"
            ELSE IF sev.s = <<"error">> THEN "Claude Code - Error"
            ELSE IF sev.s = <<"warning">> THEN "Claude Code - Warning"
            ELSE IF sev.s = <<"info">> THEN "Claude Code - Information"
            ELSE "Claude Code"
    IN /\ (pc \in {"windows", "darwin", "linux"} \/ Calls > 0) => shown.title = expected
       /\ log.native_calls > 0 => log.native.title = expected

C10_Witness ==
    /\ mode = "hook" /\ log.native_calls = 1 /\ ~success
    /\ intent.title = Lit("Claude Code")
    /\ log.native.title = "Claude Code - Permission Required"

=============================================================================
